---- MODULE Spec2Model ----
(***************************************************************************)
(* Notification delivery service (backend/app): a store of sequenced       *)
(* notifications, an in-process Broadcaster with one asyncio.Queue per     *)
(* subscriber, and three transports: polling, server-sent events and       *)
(* WebSocket.                                                              *)
(*                                                                         *)
(* All handlers are coroutines of one asyncio event loop.  An action of    *)
(* this module is the code a handler runs between two points where it      *)
(* really suspends: a network send or receive, a wait on an empty queue, a *)
(* timer.  The database calls are synchronous, and `await queue.put(..)`   *)
(* on an unbounded asyncio.Queue and `await broadcaster.subscribe()` never *)
(* suspend, so create_notification (commit and broadcast) is one action.   *)
(*                                                                         *)
(* A notification is represented by its seq; type, payload, id and         *)
(* created_at are carried through unchanged and are not modelled.  A       *)
(* queue is named by the connection that created it.  When a handler       *)
(* ends, its local variables are reset; what was sent to the client stays. *)
(***************************************************************************)
EXTENDS Integers, Sequences, FiniteSets, TLC

\* ---------------------------------------------------------------- bounds
NumClients == 2
MaxWrites == 1
MaxCursor == 1
MaxPings == 1
MaxInbound == 1
MaxLimit == 2
MaxRows == 2
MaxCalls == 4

\* ------------------------------------------------------ program constants
BacklogLimit == 200
MaxPollLimit == 200
DefaultPollLimit == 50
PolicyViolation == 1008

Clients == 1..NumClients
NoCursor == -1
CursorInputs == {NoCursor} \cup (0..MaxCursor)

VARIABLES
    store,          \* seqs of the rows of table notifications
    nextSeq,        \* next value of sequence notification_seq
    writes,         \* create requests handled so far
    lastStatus,     \* HTTP status of the last create request (0: no response)
    lastData,       \* keys of the body of the last create request
    returned,       \* seq in the response to the last create request (0: none)
    subscribers,    \* Broadcaster._subscribers: list of queues
    mailbox,        \* contents of each connection's asyncio.Queue
    pc,             \* where each connection handler stands
    clientCursor,   \* the cursor the client supplied (last_event_id, last_seq)
    cursor,         \* event_generator's local variable cursor
    backlog,        \* result of the handler's backlog query
    sent,           \* number of backlog items sent so far
    delivered,      \* seqs of the notification frames sent to the client, in order
    closeCodes,     \* codes of the websocket.close calls the handler made
    pushTask,       \* state of the WebSocket handler's push_updates task
    handshake,      \* what the WebSocket handler's first receive_json met
    pings,          \* keep-alive frames emitted: [conn, at], at = nextSeq then
    inbound,        \* inbound frames read by WebSocket live loops
    connectSeq,     \* history: value of nextSeq when the connection started
    subscribedAtQuery, \* history: was the queue registered when the backlog was queried
    everSubscribed, \* history: was a queue ever registered for the connection
    pollRequest,    \* last poll request <<after_seq, limit>>
    pollResponse,   \* last poll response [status, items, next_after_seq]
    polledStore,    \* history: the table as the last accepted poll read it
    pollerStart,    \* the cursor a polling client started with
    pollerCursor,   \* the after_seq the polling client sends next
    pollerReceived, \* seqs of the items the polling client was returned, in order
    lastCall        \* last direct call on the Broadcaster or on a queue

vars == <<store, nextSeq, writes, lastStatus, lastData, returned, subscribers, mailbox, pc,
          clientCursor, cursor, backlog, sent, delivered, closeCodes, pushTask,
          handshake, pings, inbound, connectSeq, subscribedAtQuery,
          everSubscribed, pollRequest, pollResponse, polledStore,
          pollerStart, pollerCursor, pollerReceived, lastCall>>

storeVars == <<store, nextSeq, writes, lastStatus, lastData, returned>>
pollerVars == <<pollerStart, pollerCursor, pollerReceived>>
pollVars == <<pollRequest, pollResponse, polledStore, pollerVars>>
localVars == <<clientCursor, cursor, backlog, sent, connectSeq>>
clientVars == <<pc, localVars, delivered, closeCodes, pushTask, handshake,
                pings, inbound, subscribedAtQuery, everSubscribed>>

\* ---------------------------------------------------------------- helpers
SetMin(S) == CHOOSE x \in S : \A y \in S : x <= y
SetMax(S) == CHOOSE x \in S : \A y \in S : x >= y

\* the members of S between lo and hi, ascending
RECURSIVE AscBetween(_, _, _)
AscBetween(S, lo, hi) ==
    IF lo > hi THEN <<>>
    ELSE IF lo = hi THEN (IF lo \in S THEN <<lo>> ELSE <<>>)
    ELSE LET mid == (lo + hi) \div 2
         IN AscBetween(S, lo, mid) \o AscBetween(S, mid + 1, hi)

\* ORDER BY seq ASC
OrderBySeqAsc(S) ==
    IF S = {} THEN <<>> ELSE AscBetween(S, SetMin(S), SetMax(S))

Take(s, n) == IF n >= Len(s) THEN s ELSE SubSeq(s, 1, n)

\* mutant of RangeQuery: the filter keeps the cursor's own row (seq >= after)
RangeQueryInclusive(rows, after, limit) ==
    Take(OrderBySeqAsc({s \in rows : s >= after}), limit)

\* db.query(Notification).filter(seq > after).order_by(seq.asc()).limit(limit).all()
RangeQuery(rows, after, limit) ==
    Take(OrderBySeqAsc({s \in rows : s > after}), limit)

\* `last_event_id or 0`
OrZero(x) == IF x = NoCursor \/ x = 0 THEN 0 ELSE x

InList(list, q) == \E i \in 1..Len(list) : list[i] = q

\* list.remove(q): drops the first occurrence
ListRemove(list, q) ==
    LET i == CHOOSE k \in 1..Len(list) :
                 list[k] = q /\ \A j \in 1..(k - 1) : list[j] # q
    IN SubSeq(list, 1, i - 1) \o SubSeq(list, i + 1, Len(list))

\* ------------------------------------------------------------ Broadcaster
\* asyncio.Queue() is built without maxsize: 0, a queue without a bound
QueueMaxSize == 0

\* mutant of QueueFull: a queue of one slot
QueueFullAtOne(box) == Len(box) >= 1

\* Queue.full(): put suspends on a full queue
QueueFull(box) == QueueMaxSize > 0 /\ Len(box) >= QueueMaxSize

\* list.remove(q) raises ValueError when q is not in the list
ListRemoveRaises(list, q) == ~InList(list, q)

\* mutant of UnsubscribeRaises: remove is called without the membership test
UnsubscribeRaisesUnguarded(list, q) == ListRemoveRaises(list, q)

\* Broadcaster.unsubscribe raises when the remove it reaches does
UnsubscribeRaises(list, q) == InList(list, q) /\ ListRemoveRaises(list, q)

\* Broadcaster.subscribe: a fresh empty queue appended to the list
Subscribe(list, q) == Append(list, q)

\* mutant of Unsubscribe: drops the newest queue instead of the given one
UnsubscribeLast(list, q) ==
    IF list = <<>> THEN list ELSE SubSeq(list, 1, Len(list) - 1)

\* Broadcaster.unsubscribe
Unsubscribe(list, q) == IF InList(list, q) THEN ListRemove(list, q) ELSE list

\* the for loop of Broadcaster.broadcast, from list position i on; the loop
\* stays at a put that suspends
RECURSIVE BroadcastFrom(_, _, _, _)
BroadcastFrom(i, list, boxes, msg) ==
    IF i > Len(list) THEN boxes
    ELSE IF QueueFull(boxes[list[i]]) THEN boxes
    ELSE BroadcastFrom(i + 1, list,
                       [boxes EXCEPT ![list[i]] = Append(@, msg)], msg)

\* mutant of Broadcast: the loop is left after its first put
BroadcastFirstOnly(list, boxes, msg) ==
    IF list = <<>> THEN boxes
    ELSE [boxes EXCEPT ![list[1]] = Append(@, msg)]

\* mutant of Broadcast: with no subscriber the message is kept for the
\* queues to come
BroadcastBuffered(list, boxes, msg) ==
    IF list = <<>> THEN [q \in DOMAIN boxes |-> Append(boxes[q], msg)]
    ELSE BroadcastFrom(1, list, boxes, msg)

\* Broadcaster.broadcast
Broadcast(list, boxes, msg) ==
    IF list = <<>> THEN boxes ELSE BroadcastFrom(1, list, boxes, msg)

\* Broadcaster.broadcast returns: no put of its loop suspends
BroadcastCompletes(list, boxes) ==
    \A i \in 1..Len(list) : ~QueueFull(boxes[list[i]])

\* no direct call was made yet
NoCall == [n |-> 0, op |-> "none", queue |-> 0, listed |-> FALSE,
           outcome |-> "none"]

\* ------------------------------------------------------------------- Init
\* a fresh process: no connection, no subscriber; the table holds `rows`
\* rows and the polling client holds the cursor `start`
InitFrom(rows, start) ==
    /\ store = 1..rows
    /\ nextSeq = rows + 1
    /\ writes = 0
    /\ lastStatus = 0
    /\ lastData = {}
    /\ returned = 0
    /\ subscribers = <<>>
    /\ mailbox = [c \in Clients |-> <<>>]
    /\ pc = [c \in Clients |-> "idle"]
    /\ clientCursor = [c \in Clients |-> 0]
    /\ cursor = [c \in Clients |-> 0]
    /\ backlog = [c \in Clients |-> <<>>]
    /\ sent = [c \in Clients |-> 0]
    /\ delivered = [c \in Clients |-> <<>>]
    /\ closeCodes = [c \in Clients |-> <<>>]
    /\ pushTask = [c \in Clients |-> "none"]
    /\ handshake = [c \in Clients |-> "none"]
    /\ pings = <<>>
    /\ inbound = 0
    /\ connectSeq = [c \in Clients |-> 0]
    /\ subscribedAtQuery = [c \in Clients |-> FALSE]
    /\ everSubscribed = [c \in Clients |-> FALSE]
    /\ pollRequest = <<0, 0>>
    /\ pollResponse = [status |-> 0, items |-> <<>>, next_after_seq |-> 0]
    /\ polledStore = {}
    /\ pollerStart = start
    /\ pollerCursor = start
    /\ pollerReceived = <<>>
    /\ lastCall = NoCall

InitWith(rows) == InitFrom(rows, 0)

\* the table is empty: a fresh deployment
Init == InitWith(0)

Connected(c) == pc[c] \notin {"idle", "closed"}

\* connections are numbered in the order in which they arrive
NextConnection(c) ==
    /\ pc[c] = "idle"
    /\ \A d \in Clients : d < c => pc[d] # "idle"

\* the handler of connection c has ended: its locals are gone
ResetLocals(c) ==
    /\ clientCursor' = [clientCursor EXCEPT ![c] = 0]
    /\ cursor' = [cursor EXCEPT ![c] = 0]
    /\ backlog' = [backlog EXCEPT ![c] = <<>>]
    /\ sent' = [sent EXCEPT ![c] = 0]
    /\ connectSeq' = [connectSeq EXCEPT ![c] = 0]

\* the queue of connection c is dropped with its handler
DropQueue(c) == mailbox' = [mailbox EXCEPT ![c] = <<>>]

\* ---------------------------------------------------- create_notification
\* the bodies of create requests, each by the keys it holds
DataInputs == SUBSET {"type", "payload"}

\* mutant of MissingField: only a body without both keys is refused
MissingBoth(data) == "type" \notin data /\ "payload" \notin data

\* `"type" not in data or "payload" not in data`
MissingField(data) == "type" \notin data \/ "payload" \notin data

\* mutant of CreateNotification: the row takes the value the sequence gave
\* last, not a new one
CreateNotificationStaleSeq ==
    \E data \in DataInputs :
        /\ writes < MaxWrites
        /\ ~MissingField(data)
        /\ writes' = writes + 1
        /\ lastData' = data
        /\ store' = store \cup {nextSeq - 1}
        /\ nextSeq' = nextSeq
        /\ mailbox' = Broadcast(subscribers, mailbox, nextSeq - 1)
        /\ lastStatus' = 201
        /\ returned' = nextSeq - 1
        /\ UNCHANGED <<subscribers, clientVars, pollVars, lastCall>>

\* POST /api/notifications with type and payload: insert, commit, broadcast
CreateNotification ==
    \E data \in DataInputs :
        /\ writes < MaxWrites
        /\ ~MissingField(data)
        /\ writes' = writes + 1
        /\ lastData' = data
        /\ store' = store \cup {nextSeq}
        /\ nextSeq' = nextSeq + 1
        /\ mailbox' = Broadcast(subscribers, mailbox, nextSeq)
        /\ lastStatus' = IF BroadcastCompletes(subscribers, mailbox) THEN 201
                         ELSE 0
        /\ returned' = IF BroadcastCompletes(subscribers, mailbox)
                       THEN nextSeq ELSE 0
        /\ UNCHANGED <<subscribers, clientVars, pollVars, lastCall>>

\* POST /api/notifications without type or without payload: HTTP 400
CreateNotificationRejected ==
    \E data \in DataInputs :
        /\ writes < MaxWrites
        /\ MissingField(data)
        /\ writes' = writes + 1
        /\ lastData' = data
        /\ lastStatus' = 400
        /\ returned' = 0
        /\ UNCHANGED <<store, nextSeq, subscribers, mailbox, clientVars,
                       pollVars, lastCall>>

\* mutant of CreateNotificationStoreFailure: the broadcast comes before the
\* commit that raises
CreateNotificationBroadcastFirst ==
    \E data \in DataInputs, drawn \in {0, 1} :
        /\ writes < MaxWrites
        /\ ~MissingField(data)
        /\ writes' = writes + 1
        /\ lastData' = data
        /\ lastStatus' = 500
        /\ returned' = 0
        /\ nextSeq' = nextSeq + drawn
        /\ mailbox' = Broadcast(subscribers, mailbox, nextSeq)
        /\ UNCHANGED <<store, subscribers, clientVars, pollVars, lastCall>>

\* POST /api/notifications whose commit raises: nothing stored, nothing
\* broadcast; the sequence value may already have been drawn
CreateNotificationStoreFailure ==
    \E data \in DataInputs, drawn \in {0, 1} :
        /\ writes < MaxWrites
        /\ ~MissingField(data)
        /\ writes' = writes + 1
        /\ lastData' = data
        /\ lastStatus' = 500
        /\ returned' = 0
        /\ nextSeq' = nextSeq + drawn
        /\ UNCHANGED <<store, subscribers, mailbox, clientVars, pollVars,
                       lastCall>>

\* ----------------------------------------------------- poll_notifications
PollLimits == (0..MaxLimit) \cup {DefaultPollLimit, MaxPollLimit}

\* mutant of PollResult: next_after_seq is the seq of the newest row
PollResultNewestCursor(rows, after_seq, limit) ==
    LET results == RangeQuery(rows, after_seq, limit)
    IN [status |-> 200,
        items |-> results,
        next_after_seq |-> IF results # <<>> THEN SetMax(rows)
                           ELSE after_seq]

\* the handler body: range query, items, next_after_seq
PollResult(rows, after_seq, limit) ==
    LET results == RangeQuery(rows, after_seq, limit)
    IN [status |-> 200,
        items |-> results,
        next_after_seq |-> IF results # <<>> THEN results[Len(results)]
                           ELSE after_seq]

\* mutant of PollNotifications: the rows returned are taken out of the table
PollNotificationsConsuming ==
    \E after_seq \in 0..MaxCursor, limit \in PollLimits :
        /\ pollRequest' = <<after_seq, limit>>
        /\ pollResponse' = PollResult(store, after_seq, limit)
        /\ polledStore' = store
        /\ store' = {n \in store :
                       \A i \in 1..Len(pollResponse'.items) :
                           pollResponse'.items[i] # n}
        /\ UNCHANGED <<nextSeq, writes, lastStatus, lastData, returned,
                       subscribers, mailbox,
                       clientVars,
                       pollerVars, lastCall>>

\* GET /api/notifications?after_seq=..&limit=..  (limit <= 200)
PollNotifications ==
    \E after_seq \in 0..MaxCursor, limit \in PollLimits :
        /\ pollRequest' = <<after_seq, limit>>
        /\ pollResponse' = PollResult(store, after_seq, limit)
        /\ polledStore' = store
        /\ UNCHANGED <<storeVars, subscribers, mailbox, clientVars,
                       pollerVars, lastCall>>

\* the limits a polling client that wants items sends
PollerLimits == (1..MaxLimit) \cup {DefaultPollLimit, MaxPollLimit}

\* a client polls with the next_after_seq of its last response as after_seq
PollerPoll ==
    \E limit \in PollerLimits :
        LET response == PollResult(store, pollerCursor, limit)
        IN /\ pollRequest' = <<pollerCursor, limit>>
           /\ pollResponse' = response
           /\ polledStore' = store
           /\ pollerReceived' = pollerReceived \o response.items
           /\ pollerCursor' = response.next_after_seq
           /\ UNCHANGED <<storeVars, subscribers, mailbox, clientVars,
                          pollerStart, lastCall>>

\* GET /api/notifications with limit > 200: rejected by Query(50, le=200)
PollNotificationsRejected ==
    \E after_seq \in 0..MaxCursor :
        /\ pollRequest' = <<after_seq, MaxPollLimit + 1>>
        /\ pollResponse' = [status |-> 422, items |-> <<>>,
                            next_after_seq |-> 0]
        /\ UNCHANGED <<storeVars, subscribers, mailbox, clientVars,
                       polledStore, pollerVars, lastCall>>

\* ---------------------------------------- sse_notifications.event_generator
\* The generator starts: cursor, backlog query, then either the first backlog
\* item is yielded (the generator suspends before subscribing) or, with an
\* empty backlog, the queue is subscribed and the live loop entered.
SSEConnect(c) ==
    \E last_event_id \in CursorInputs :
        LET cur == OrZero(last_event_id)
            rows == RangeQuery(store, cur, BacklogLimit)
        IN /\ NextConnection(c)
           /\ clientCursor' = [clientCursor EXCEPT ![c] = cur]
           /\ cursor' = [cursor EXCEPT ![c] = cur]
           /\ backlog' = [backlog EXCEPT ![c] = rows]
           /\ connectSeq' = [connectSeq EXCEPT ![c] = nextSeq]
           /\ subscribedAtQuery' = [subscribedAtQuery EXCEPT
                                      ![c] = InList(subscribers, c)]
           /\ IF rows = <<>>
              THEN /\ subscribers' = Subscribe(subscribers, c)
                   /\ everSubscribed' = [everSubscribed EXCEPT ![c] = TRUE]
                   /\ pc' = [pc EXCEPT ![c] = "sse_live"]
                   /\ UNCHANGED <<sent, delivered>>
              ELSE /\ delivered' = [delivered EXCEPT ![c] = Append(@, rows[1])]
                   /\ sent' = [sent EXCEPT ![c] = 1]
                   /\ pc' = [pc EXCEPT ![c] = "sse_backlog"]
                   /\ UNCHANGED <<subscribers, everSubscribed>>
           /\ UNCHANGED <<storeVars, mailbox, closeCodes, pushTask, handshake,
                          pings, inbound, pollVars, lastCall>>

\* The generator resumes after a backlog yield: cursor = item.seq, then the
\* next item is yielded or, after the last one, the queue is subscribed.
SSEBacklogResume(c) ==
    /\ pc[c] = "sse_backlog"
    /\ cursor' = [cursor EXCEPT ![c] = backlog[c][sent[c]]]
    /\ IF sent[c] < Len(backlog[c])
       THEN /\ delivered' = [delivered EXCEPT
                               ![c] = Append(@, backlog[c][sent[c] + 1])]
            /\ sent' = [sent EXCEPT ![c] = @ + 1]
            /\ UNCHANGED <<subscribers, everSubscribed, pc>>
       ELSE /\ subscribers' = Subscribe(subscribers, c)
            /\ everSubscribed' = [everSubscribed EXCEPT ![c] = TRUE]
            /\ pc' = [pc EXCEPT ![c] = "sse_live"]
            /\ UNCHANGED <<sent, delivered>>
    /\ UNCHANGED <<storeVars, mailbox, clientCursor, backlog, connectSeq,
                   closeCodes, pushTask, handshake, pings, inbound,
                   subscribedAtQuery, pollVars, lastCall>>

\* Live loop: queue.get() returns a message, which is yielded as it is.
SSELiveYield(c) ==
    /\ pc[c] = "sse_live"
    /\ mailbox[c] # <<>>
    /\ delivered' = [delivered EXCEPT ![c] = Append(@, Head(mailbox[c]))]
    /\ mailbox' = [mailbox EXCEPT ![c] = Tail(@)]
    /\ UNCHANGED <<storeVars, subscribers, pc, localVars, closeCodes, pushTask,
                   handshake, pings, inbound, subscribedAtQuery,
                   everSubscribed, pollVars, lastCall>>

\* mutant of SSEKeepAlive: the timeout leaves the live loop
SSEKeepAliveBreaks(c) ==
    /\ pc[c] = "sse_live"
    /\ mailbox[c] = <<>>
    /\ Len(pings) < MaxPings
    /\ pings' = Append(pings, [conn |-> c, at |-> nextSeq])
    /\ subscribers' = Unsubscribe(subscribers, c)
    /\ pc' = [pc EXCEPT ![c] = "closed"]
    /\ ResetLocals(c)
    /\ UNCHANGED <<storeVars, mailbox, delivered, closeCodes, pushTask,
                   handshake, inbound, subscribedAtQuery, everSubscribed,
                   pollVars, lastCall>>

\* Live loop: queue.get() times out after 15 s on an empty queue: ": ping".
SSEKeepAlive(c) ==
    /\ pc[c] = "sse_live"
    /\ mailbox[c] = <<>>
    /\ Len(pings) < MaxPings
    /\ pings' = Append(pings, [conn |-> c, at |-> nextSeq])
    /\ UNCHANGED <<storeVars, subscribers, mailbox, pc, localVars, delivered,
                   closeCodes, pushTask, handshake, inbound, subscribedAtQuery,
                   everSubscribed, pollVars, lastCall>>

\* The client goes away (is_disconnected, a failed send, cancellation).  In
\* the live loop the finally clause unsubscribes; during the backlog the
\* generator stops at its yield, where no queue exists yet.
SSEDisconnect(c) ==
    /\ pc[c] \in {"sse_backlog", "sse_live"}
    /\ subscribers' = IF pc[c] = "sse_live" THEN Unsubscribe(subscribers, c)
                      ELSE subscribers
    /\ pc' = [pc EXCEPT ![c] = "closed"]
    /\ ResetLocals(c)
    /\ DropQueue(c)
    /\ UNCHANGED <<storeVars, delivered, closeCodes, pushTask,
                   handshake, pings, inbound, subscribedAtQuery,
                   everSubscribed, pollVars, lastCall>>

\* ------------------------------------------------------ websocket_endpoint
\* `hello_msg.get("last_seq", 0)`
LastSeqOf(x) == IF x = NoCursor THEN 0 ELSE x

\* first messages answered by websocket.close(code=1008): a JSON object whose
\* type is not "hello", text that is not JSON, or nothing within 5 s
RejectedFirstMessages == {"other_type", "malformed_json", "timeout"}

\* first messages that raise past the except clause: JSON that is no object
\* (hello_msg.get raises AttributeError), or the client going away
\* (receive_json raises WebSocketDisconnect)
RaisingFirstMessages == {"non_object", "disconnect"}

\* accept, then broadcaster.subscribe(); the handler waits for the hello
WSAccept(c) ==
    /\ NextConnection(c)
    /\ subscribers' = Subscribe(subscribers, c)
    /\ everSubscribed' = [everSubscribed EXCEPT ![c] = TRUE]
    /\ connectSeq' = [connectSeq EXCEPT ![c] = nextSeq]
    /\ pc' = [pc EXCEPT ![c] = "ws_hello"]
    /\ UNCHANGED <<storeVars, mailbox, clientCursor, cursor, backlog, sent,
                   delivered, closeCodes, pushTask, handshake, pings, inbound,
                   subscribedAtQuery, pollVars, lastCall>>

\* end of the backlog loop: push_updates is started, the handler reads inbound
WSStartLive(c) ==
    /\ pushTask' = [pushTask EXCEPT ![c] = "running"]
    /\ pc' = [pc EXCEPT ![c] = "ws_live"]

\* a hello arrives: last_seq, backlog query, first backlog item sent
WSHello(c) ==
    \E last_seq \in CursorInputs :
        LET cur == LastSeqOf(last_seq)
            rows == RangeQuery(store, cur, BacklogLimit)
        IN /\ pc[c] = "ws_hello"
           /\ handshake' = [handshake EXCEPT ![c] = "hello"]
           /\ clientCursor' = [clientCursor EXCEPT ![c] = cur]
           /\ backlog' = [backlog EXCEPT ![c] = rows]
           /\ subscribedAtQuery' = [subscribedAtQuery EXCEPT
                                      ![c] = InList(subscribers, c)]
           /\ IF rows = <<>>
              THEN /\ WSStartLive(c)
                   /\ UNCHANGED <<sent, delivered>>
              ELSE /\ delivered' = [delivered EXCEPT ![c] = Append(@, rows[1])]
                   /\ sent' = [sent EXCEPT ![c] = 1]
                   /\ pc' = [pc EXCEPT ![c] = "ws_backlog"]
                   /\ UNCHANGED pushTask
           /\ UNCHANGED <<storeVars, subscribers, mailbox, cursor, connectSeq,
                          closeCodes, pings, inbound, everSubscribed, pollVars, lastCall>>

\* the handler leaves through `finally: broadcaster.unsubscribe(queue)`
WSFinally(c) ==
    /\ subscribers' = Unsubscribe(subscribers, c)
    /\ pc' = [pc EXCEPT ![c] = "closed"]
    /\ ResetLocals(c)
    /\ DropQueue(c)

\* first message rejected: websocket.close(code=1008), return
WSHelloRejected(c) ==
    \E first \in RejectedFirstMessages :
        /\ pc[c] = "ws_hello"
        /\ handshake' = [handshake EXCEPT ![c] = first]
        /\ closeCodes' = [closeCodes EXCEPT ![c] = Append(@, PolicyViolation)]
        /\ WSFinally(c)
        /\ UNCHANGED <<storeVars, delivered, pushTask, pings,
                       inbound, subscribedAtQuery, everSubscribed, pollVars, lastCall>>

\* first message raises an exception the handler does not catch
WSHelloRaises(c) ==
    \E first \in RaisingFirstMessages :
        /\ pc[c] = "ws_hello"
        /\ handshake' = [handshake EXCEPT ![c] = first]
        /\ WSFinally(c)
        /\ UNCHANGED <<storeVars, delivered, closeCodes, pushTask,
                       pings, inbound, subscribedAtQuery, everSubscribed,
                       pollVars, lastCall>>

\* a backlog send_json returns: the next item is sent, or the live phase starts
WSBacklogNext(c) ==
    /\ pc[c] = "ws_backlog"
    /\ IF sent[c] < Len(backlog[c])
       THEN /\ delivered' = [delivered EXCEPT
                               ![c] = Append(@, backlog[c][sent[c] + 1])]
            /\ sent' = [sent EXCEPT ![c] = @ + 1]
            /\ UNCHANGED <<pc, pushTask>>
       ELSE /\ WSStartLive(c)
            /\ UNCHANGED <<sent, delivered>>
    /\ UNCHANGED <<storeVars, subscribers, mailbox, clientCursor, cursor,
                   backlog, connectSeq, closeCodes, handshake, pings, inbound,
                   subscribedAtQuery, everSubscribed, pollVars, lastCall>>

\* a backlog send_json raises (the client is gone): the exception leaves the
\* handler through the finally clause
WSBacklogSendRaises(c) ==
    /\ pc[c] = "ws_backlog"
    /\ WSFinally(c)
    /\ UNCHANGED <<storeVars, delivered, closeCodes, pushTask,
                   handshake, pings, inbound, subscribedAtQuery,
                   everSubscribed, pollVars, lastCall>>

\* push_updates: queue.get() returns a message, which is sent as it is
WSPush(c) ==
    /\ pushTask[c] = "running"
    /\ mailbox[c] # <<>>
    /\ delivered' = [delivered EXCEPT ![c] = Append(@, Head(mailbox[c]))]
    /\ mailbox' = [mailbox EXCEPT ![c] = Tail(@)]
    /\ UNCHANGED <<storeVars, subscribers, pc, localVars, closeCodes, pushTask,
                   handshake, pings, inbound, subscribedAtQuery,
                   everSubscribed, pollVars, lastCall>>

\* push_updates: send_json raises, the task ends with the exception; the
\* handler itself still waits in receive_text
WSPushSendRaises(c) ==
    /\ pushTask[c] = "running"
    /\ mailbox[c] # <<>>
    /\ mailbox' = [mailbox EXCEPT ![c] = Tail(@)]
    /\ pushTask' = [pushTask EXCEPT ![c] = "failed"]
    /\ UNCHANGED <<storeVars, subscribers, pc, localVars, delivered,
                   closeCodes, handshake, pings, inbound, subscribedAtQuery,
                   everSubscribed, pollVars, lastCall>>

\* live loop: receive_text returns an inbound frame, which is dropped
WSInbound(c) ==
    /\ pc[c] = "ws_live"
    /\ inbound < MaxInbound
    /\ inbound' = inbound + 1
    /\ UNCHANGED <<storeVars, subscribers, mailbox, pc, localVars, delivered,
                   closeCodes, pushTask, handshake, pings, subscribedAtQuery,
                   everSubscribed, pollVars, lastCall>>

\* mutant of WSDisconnect: push_task.cancel() is left out
WSDisconnectNoCancel(c) ==
    /\ pc[c] = "ws_live"
    /\ WSFinally(c)
    /\ UNCHANGED <<storeVars, delivered, closeCodes, pushTask, handshake,
                   pings, inbound, subscribedAtQuery, everSubscribed, pollVars, lastCall>>

\* live loop: receive_text raises WebSocketDisconnect: push_task.cancel(),
\* then the finally clause
WSDisconnect(c) ==
    /\ pc[c] = "ws_live"
    /\ pushTask' = [pushTask EXCEPT
                      ![c] = IF @ = "running" THEN "cancelled" ELSE @]
    /\ WSFinally(c)
    /\ UNCHANGED <<storeVars, delivered, closeCodes, handshake,
                   pings, inbound, subscribedAtQuery, everSubscribed, pollVars, lastCall>>

\* ------------------------------------------- direct calls on the Broadcaster
\* the record of one more direct call
Call(op, q, listed, outcome) ==
    [n |-> lastCall.n + 1, op |-> op, queue |-> q, listed |-> listed,
     outcome |-> outcome]

\* `await broadcaster.subscribe()`: a new empty queue, appended to the list;
\* queues are numbered in the order in which they are made
BroadcasterSubscribe(q) ==
    /\ lastCall.n < MaxCalls
    /\ ~everSubscribed[q]
    /\ \A d \in Clients : d < q => everSubscribed[d]
    /\ subscribers' = Subscribe(subscribers, q)
    /\ mailbox' = [mailbox EXCEPT ![q] = <<>>]
    /\ everSubscribed' = [everSubscribed EXCEPT ![q] = TRUE]
    /\ connectSeq' = [connectSeq EXCEPT ![q] = nextSeq]
    /\ lastCall' = Call("subscribe", q, FALSE, "returned")
    /\ UNCHANGED <<storeVars, pc, clientCursor, cursor, backlog, sent,
                   delivered, closeCodes, pushTask, handshake, pings, inbound,
                   subscribedAtQuery, pollVars>>

\* `broadcaster.unsubscribe(queue)` with any queue: one in the list, one
\* removed before, or one the Broadcaster never made
BroadcasterUnsubscribe(q) ==
    /\ lastCall.n < MaxCalls
    /\ IF UnsubscribeRaises(subscribers, q)
       THEN /\ subscribers' = subscribers
            /\ lastCall' = Call("unsubscribe", q, InList(subscribers, q),
                                "raised")
       ELSE /\ subscribers' = Unsubscribe(subscribers, q)
            /\ lastCall' = Call("unsubscribe", q, InList(subscribers, q),
                                "returned")
    /\ UNCHANGED <<storeVars, mailbox, clientVars, pollVars>>

\* `await broadcaster.broadcast(message)`; the message is named by the next
\* number of the sequence
BroadcasterBroadcast ==
    /\ lastCall.n < MaxCalls
    /\ mailbox' = Broadcast(subscribers, mailbox, nextSeq)
    /\ nextSeq' = nextSeq + 1
    /\ lastCall' = Call("broadcast", 0, FALSE,
                        IF BroadcastCompletes(subscribers, mailbox)
                        THEN "returned" ELSE "pending")
    /\ UNCHANGED <<store, writes, lastStatus, lastData, returned,
                   subscribers, clientVars,
                   pollVars>>

\* `await queue.get()` by the owner of a queue that holds a message
QueueGet(q) ==
    /\ lastCall.n < MaxCalls
    /\ mailbox[q] # <<>>
    /\ delivered' = [delivered EXCEPT ![q] = Append(@, Head(mailbox[q]))]
    /\ mailbox' = [mailbox EXCEPT ![q] = Tail(@)]
    /\ lastCall' = Call("get", q, InList(subscribers, q), "returned")
    /\ UNCHANGED <<storeVars, subscribers, pc, localVars, closeCodes,
                   pushTask, handshake, pings, inbound, subscribedAtQuery,
                   everSubscribed, pollVars>>

\* ------------------------------------------------------------------- Next
\* Both streaming transports and the writes.  The keep-alive and the inbound
\* frame change nothing but their own records; they are steps of NextSSE and
\* NextWS below.
Next ==
    \/ CreateNotification
    \/ CreateNotificationRejected
    \/ CreateNotificationStoreFailure
    \/ \E c \in Clients : SSEConnect(c)
    \/ \E c \in Clients : SSEBacklogResume(c)
    \/ \E c \in Clients : SSELiveYield(c)
    \/ \E c \in Clients : SSEDisconnect(c)
    \/ \E c \in Clients : WSAccept(c)
    \/ \E c \in Clients : WSHello(c)
    \/ \E c \in Clients : WSHelloRejected(c)
    \/ \E c \in Clients : WSHelloRaises(c)
    \/ \E c \in Clients : WSBacklogNext(c)
    \/ \E c \in Clients : WSBacklogSendRaises(c)
    \/ \E c \in Clients : WSPush(c)
    \/ \E c \in Clients : WSPushSendRaises(c)
    \/ \E c \in Clients : WSDisconnect(c)

Spec == Init /\ [][Next]_vars

\* the WebSocket transport alone, with the inbound frames of its live loop
NextWS ==
    \/ CreateNotification
    \/ CreateNotificationRejected
    \/ CreateNotificationStoreFailure
    \/ \E c \in Clients : WSAccept(c)
    \/ \E c \in Clients : WSHello(c)
    \/ \E c \in Clients : WSHelloRejected(c)
    \/ \E c \in Clients : WSHelloRaises(c)
    \/ \E c \in Clients : WSBacklogNext(c)
    \/ \E c \in Clients : WSBacklogSendRaises(c)
    \/ \E c \in Clients : WSPush(c)
    \/ \E c \in Clients : WSPushSendRaises(c)
    \/ \E c \in Clients : WSInbound(c)
    \/ \E c \in Clients : WSDisconnect(c)

SpecWS == Init /\ [][NextWS]_vars

\* the server-sent-events transport alone, with the keep-alive of its live loop
NextSSE ==
    \/ CreateNotification
    \/ CreateNotificationRejected
    \/ CreateNotificationStoreFailure
    \/ \E c \in Clients : SSEConnect(c)
    \/ \E c \in Clients : SSEBacklogResume(c)
    \/ \E c \in Clients : SSELiveYield(c)
    \/ \E c \in Clients : SSEKeepAlive(c)
    \/ \E c \in Clients : SSEDisconnect(c)

SpecSSE == Init /\ [][NextSSE]_vars

\* the Broadcaster called directly, in any order and with any queue, beside
\* create_notification
NextBroadcaster ==
    \/ CreateNotification
    \/ \E q \in Clients : BroadcasterSubscribe(q)
    \/ \E q \in Clients : BroadcasterUnsubscribe(q)
    \/ BroadcasterBroadcast
    \/ \E q \in Clients : QueueGet(q)

SpecBroadcaster == Init /\ [][NextBroadcaster]_vars

\* polling against a table that holds rows and is written to, beside
\* subscribers that wait
InitPoll == \E rows \in 0..MaxRows : InitWith(rows)

NextPoll ==
    \/ CreateNotification
    \/ CreateNotificationRejected
    \/ CreateNotificationStoreFailure
    \/ PollNotifications
    \/ PollNotificationsRejected
    \/ \E c \in Clients : WSAccept(c)

SpecPoll == InitPoll /\ [][NextPoll]_vars

\* one polling client that follows next_after_seq from its start cursor,
\* against a table that holds rows and is written to
InitPoller ==
    \E rows \in 0..MaxRows, start \in 0..MaxCursor : InitFrom(rows, start)

NextPoller ==
    \/ CreateNotification
    \/ CreateNotificationRejected
    \/ CreateNotificationStoreFailure
    \/ PollerPoll

SpecPoller == InitPoller /\ [][NextPoller]_vars

\* One connection against a table that already holds rows: one row, or one
\* row more than a backlog query returns.  The connections numbered before
\* the last one have come and gone: each was accepted as a WebSocket and
\* closed when no hello arrived in time.
PopulatedRows == {1, BacklogLimit + 1}

InitPopulated ==
    \E rows \in PopulatedRows :
        /\ store = 1..rows
        /\ nextSeq = rows + 1
        /\ writes = 0
        /\ lastStatus = 0
    /\ lastData = {}
    /\ returned = 0
        /\ subscribers = <<>>
        /\ mailbox = [c \in Clients |-> <<>>]
        /\ pc = [c \in Clients |-> IF c = NumClients THEN "idle" ELSE "closed"]
        /\ clientCursor = [c \in Clients |-> 0]
        /\ cursor = [c \in Clients |-> 0]
        /\ backlog = [c \in Clients |-> <<>>]
        /\ sent = [c \in Clients |-> 0]
        /\ delivered = [c \in Clients |-> <<>>]
        /\ closeCodes = [c \in Clients |->
                           IF c = NumClients THEN <<>> ELSE <<PolicyViolation>>]
        /\ pushTask = [c \in Clients |-> "none"]
        /\ handshake = [c \in Clients |->
                          IF c = NumClients THEN "none" ELSE "timeout"]
        /\ pings = <<>>
        /\ inbound = 0
        /\ connectSeq = [c \in Clients |-> 0]
        /\ subscribedAtQuery = [c \in Clients |-> FALSE]
        /\ everSubscribed = [c \in Clients |-> c # NumClients]
        /\ pollRequest = <<0, 0>>
        /\ pollResponse = [status |-> 0, items |-> <<>>, next_after_seq |-> 0]
        /\ polledStore = {}
        /\ pollerStart = 0
        /\ pollerCursor = 0
        /\ pollerReceived = <<>>
        /\ lastCall = NoCall

SpecPopulated == InitPopulated /\ [][Next]_vars

\* ================================================================ claims
Range(s) == {s[i] : i \in 1..Len(s)}
StrictlyIncreasing(s) == \A i, j \in 1..Len(s) : i < j => s[i] < s[j]
Streaming(c) == pc[c] \in {"sse_backlog", "sse_live", "ws_backlog", "ws_live"}

\* The connection is open, its backlog is sent and its queue is empty: no
\* frame is pending, and only a later create can add one.
CaughtUp(c) ==
    /\ mailbox[c] = <<>>
    /\ \/ pc[c] = "sse_live"
       \/ pc[c] = "ws_live" /\ pushTask[c] = "running"

FailedHandshakes == {"other_type", "malformed_json", "non_object", "timeout"}

\* C1: the seqs of the notifications sent to one SSE or WebSocket client
\* (backlog items, then live items) are strictly increasing: none is sent
\* twice, none after a larger one.
C1_DeliveredStrictlyIncreasing ==
    \A c \in Clients : StrictlyIncreasing(delivered[c])

\* C2: a notification created while a streaming client is connected reaches
\* that client if the connection stays open; so once the client has caught
\* up, every notification created since it connected has been sent to it.
C2_CreatedWhileConnectedDelivered ==
    \A c \in Clients :
        CaughtUp(c) =>
            \A n \in store : n >= connectSeq[c] => n \in Range(delivered[c])

\* C3: a streaming client that connects with cursor C receives every
\* notification that was in the store with seq > C when it connected, however
\* many there are; so once it has caught up, all of them have been sent.
C3_ExistingBacklogDelivered ==
    \A c \in Clients :
        CaughtUp(c) =>
            \A n \in store :
                (n < connectSeq[c] /\ n > clientCursor[c])
                    => n \in Range(delivered[c])

\* C4: every streaming adapter has its queue registered with the Broadcaster
\* when it issues its backlog query.
C4_SubscribedBeforeBacklogQuery ==
    \A c \in Clients : Streaming(c) => subscribedAtQuery[c]

\* C5: once a connection handler has ended, on whatever path, its queue is
\* not in the Broadcaster's list; nor is the queue of a connection that has
\* not started.
C5_NoSubscriptionOutlivesHandler ==
    \A c \in Clients : ~Connected(c) => ~InList(subscribers, c)

\* C5 witness: a handler that was subscribed and sent notifications has ended
\* while another connection is still subscribed.
C5_Witness ==
    \E c, d \in Clients :
        /\ pc[c] = "closed" /\ everSubscribed[c] /\ delivered[c] # <<>>
        /\ InList(subscribers, d)

\* C6: a publish appends the notification exactly once to the queue of every
\* subscription in the list, touches no other queue and leaves the list as
\* it is.
C6_PublishEnqueuesOncePerSubscriber ==
    [][store' # store =>
         /\ subscribers' = subscribers
         /\ \A c \in Clients :
                mailbox'[c] = IF InList(subscribers, c)
                              THEN Append(mailbox[c], nextSeq)
                              ELSE mailbox[c]]_vars

\* C6 witness: one publish has reached the queues of two subscriptions.
C6_Witness ==
    \E c, d \in Clients :
        /\ c # d
        /\ InList(subscribers, c) /\ InList(subscribers, d)
        /\ mailbox[c] # <<>> /\ mailbox[c] = mailbox[d]

\* C7: a WebSocket connection whose first message is not a well-formed hello
\* (another type, malformed JSON, a payload that is no object) or does not
\* come in time is closed with code 1008 and is sent no notification.
C7_BadHandshakeClosedWith1008 ==
    \A c \in Clients :
        handshake[c] \in FailedHandshakes =>
            /\ closeCodes[c] = <<PolicyViolation>>
            /\ delivered[c] = <<>>

\* C8: a WebSocket connection whose handshake fails never had a queue
\* registered with the Broadcaster.
C8_FailedHandshakeNeverSubscribed ==
    \A c \in Clients :
        handshake[c] \in FailedHandshakes => ~everSubscribed[c]

\* C9: when a WebSocket client disconnects after its handshake, push_updates
\* is cancelled (unless it had already ended) and the queue is unregistered;
\* nothing is sent to a closed connection; an inbound frame read by the live
\* loop changes neither what is sent nor what is queued, and ends nothing.
C9_DisconnectStopsDelivery ==
    [][/\ \A c \in Clients :
             /\ (pc[c] = "ws_live" /\ pc'[c] = "closed") =>
                    /\ pushTask'[c] = IF pushTask[c] = "running"
                                      THEN "cancelled" ELSE pushTask[c]
                    /\ ~InList(subscribers', c)
             /\ pc[c] = "closed" =>
                    /\ pc'[c] = "closed"
                    /\ delivered'[c] = delivered[c]
                    /\ pushTask'[c] # "running"
       /\ inbound' # inbound =>
             UNCHANGED <<pc, delivered, mailbox, pushTask, subscribers>>]_vars

\* C9 witness: a connection that read an inbound frame and was sent a live
\* notification has been closed by a disconnect that cancelled push_updates.
C9_Witness ==
    \E c \in Clients :
        /\ pc[c] = "closed" /\ pushTask[c] = "cancelled"
        /\ handshake[c] = "hello" /\ delivered[c] # <<>>
        /\ inbound > 0

\* what an accepted poll must answer, stated without the query
PollAnswer(rows, after_seq, limit, response) ==
    LET avail == {n \in rows : n > after_seq}
        count == IF limit < Cardinality(avail) THEN limit
                 ELSE Cardinality(avail)
        items == response.items
    IN /\ Len(items) = count
       /\ StrictlyIncreasing(items)
       /\ Range(items) \subseteq avail
       /\ \A n \in avail \ Range(items) : \A m \in Range(items) : m < n
       /\ response.next_after_seq = IF count = 0 THEN after_seq
                                    ELSE items[count]

\* C10: an accepted poll returns the first min(limit, available)
\* notifications with seq > after_seq in ascending order, and next_after_seq
\* is the seq of the last one, or after_seq when none is returned.
C10_PollReturnsRange ==
    [][(pollResponse' # pollResponse \/ pollRequest' # pollRequest)
         /\ pollResponse'.status = 200
         => PollAnswer(store, pollRequest'[1], pollRequest'[2], pollResponse')]_vars

\* C10 witness: a poll was cut short by its limit while more rows were there,
\* and next_after_seq moved to the last row returned.
C10_Witness ==
    /\ pollRequest = <<0, 1>>
    /\ pollResponse.status = 200
    /\ Cardinality(store) >= 2
    /\ pollResponse.items = <<1>>
    /\ pollResponse.next_after_seq = 1

\* C11: a poll changes neither the table, the sequence, the Broadcaster's
\* list nor any queue (it creates no subscription), and a poll that repeats
\* the request of the poll before it, with no write in between, returns the
\* same response.
C11_PollReadOnlyIdempotent ==
    [][/\ (pollRequest' # pollRequest \/ pollResponse' # pollResponse
            \/ polledStore' # polledStore)
           => UNCHANGED <<store, nextSeq, subscribers, mailbox>>
       /\ (pollRequest' = pollRequest /\ pollResponse.status = 200
            /\ polledStore = store /\ store' = store)
           => pollResponse' = pollResponse]_vars

\* C11 witness: a poll has returned rows, the newest of them written during
\* the run and still waiting in the queue of a subscription.
C11_Witness ==
    /\ pollResponse.status = 200 /\ pollResponse.items # <<>>
    /\ polledStore = store
    /\ \E c \in Clients :
           /\ InList(subscribers, c)
           /\ mailbox[c] # <<>>
           /\ pollResponse.next_after_seq = mailbox[c][Len(mailbox[c])]

\* C12: a keep-alive frame is emitted for an SSE connection that waits in
\* its live loop on an empty queue; the step closes nothing, keeps the queue
\* registered and moves neither the cursor nor what was delivered; and every
\* notification published after a keep-alive of a connection that is still
\* open is in its queue or has been sent to it.
C12_KeepAliveKeepsStreamOpen ==
    [][/\ pings' # pings =>
             LET p == pings'[Len(pings')]
             IN /\ pings' = Append(pings, p)
                /\ pc[p.conn] = "sse_live" /\ mailbox[p.conn] = <<>>
                /\ InList(subscribers', p.conn)
                /\ UNCHANGED <<pc, subscribers, mailbox, cursor, delivered,
                               store>>
       /\ \A i \in 1..Len(pings') :
             LET c == pings'[i].conn
             IN pc'[c] = "sse_live" =>
                    \A n \in store' :
                        n >= pings'[i].at =>
                            n \in Range(delivered'[c]) \cup Range(mailbox'[c])]_vars

\* C12 witness: a connection that was sent a keep-alive is still open and
\* has since been sent a notification published after the keep-alive.
C12_Witness ==
    \E i \in 1..Len(pings) :
        LET c == pings[i].conn
        IN /\ pc[c] = "sse_live" /\ InList(subscribers, c)
           /\ mailbox[c] = <<>>
           /\ \E n \in Range(delivered[c]) : n >= pings[i].at

\* the list without q, the others in their order
Without(list, q) == SelectSeq(list, LAMBDA x : x # q)

\* C13: Broadcaster.unsubscribe raises for no queue: it takes a listed queue
\* out of the list and leaves the others in their order, it is a no-op for
\* a queue removed before or never registered, it touches no queue's
\* contents, and after it the queue is not listed, so that calling it again
\* changes nothing.
C13_UnsubscribeIdempotent ==
    [][(lastCall'.n # lastCall.n /\ lastCall'.op = "unsubscribe") =>
          LET q == lastCall'.queue
          IN /\ lastCall'.outcome = "returned"
             /\ mailbox' = mailbox
             /\ subscribers' = IF InList(subscribers, q)
                               THEN Without(subscribers, q) ELSE subscribers
             /\ ~InList(subscribers', q)]_vars

\* C13 witness: unsubscribe was called for a queue that had been removed
\* before, while another queue is listed and holds a message.
C13_Witness ==
    /\ lastCall.op = "unsubscribe" /\ lastCall.outcome = "returned"
    /\ ~lastCall.listed
    /\ everSubscribed[lastCall.queue]
    /\ \E d \in Clients : InList(subscribers, d) /\ mailbox[d] # <<>>

\* C14: a publish made while the list is empty returns and changes neither
\* the list nor any queue; a queue starts empty when it is registered, and
\* no queue ever holds or hands out a message published before it was
\* registered.
C14_PublishToNobodyHasNoEffect ==
    [][/\ (lastCall'.n # lastCall.n /\ lastCall'.op = "broadcast"
            /\ subscribers = <<>>)
           => /\ lastCall'.outcome = "returned"
              /\ UNCHANGED <<subscribers, mailbox, delivered, store>>
       /\ (store' # store /\ subscribers = <<>>)
           => /\ lastStatus' = 201
              /\ UNCHANGED <<subscribers, mailbox, delivered>>
       /\ \A q \in Clients :
              /\ (~InList(subscribers, q) /\ InList(subscribers', q))
                     => mailbox'[q] = <<>>
              /\ \A n \in Range(mailbox'[q]) \cup Range(delivered'[q]) :
                     everSubscribed'[q] /\ n >= connectSeq'[q]]_vars

\* C14 witness: the first queue was registered after a publish had met an
\* empty list, and holds a later message only.
C14_Witness ==
    /\ InList(subscribers, 1)
    /\ connectSeq[1] > 1
    /\ mailbox[1] # <<>>
    /\ delivered[1] = <<>>

\* C15: every publish, a direct broadcast or a create_notification, returns
\* in its own step and has put the message on every listed queue, however
\* many messages those queues hold undelivered.
C15_PublishNeverWaits ==
    [][nextSeq' # nextSeq =>
          /\ \A q \in Clients :
                 InList(subscribers, q)
                     => mailbox'[q] = Append(mailbox[q], nextSeq)
          /\ lastCall'.n # lastCall.n => lastCall'.outcome = "returned"
          /\ store' # store => lastStatus' = 201]_vars

\* C15 witness: a queue nobody has read from holds several messages, among
\* them one of a create_notification, and the last publish returned.
C15_Witness ==
    \E q \in Clients :
        /\ InList(subscribers, q)
        /\ delivered[q] = <<>>
        /\ Len(mailbox[q]) >= 3
        /\ store # {} /\ store \subseteq Range(mailbox[q])
        /\ lastStatus = 201
        /\ lastCall.op = "broadcast" /\ lastCall.outcome = "returned"

\* C16: a create request whose body lacks type or payload is answered 400
\* (and only such a request is), and it stores nothing, draws no sequence
\* value, returns no seq and puts nothing on any queue.
C16_InvalidCreateRejectedWithoutEffect ==
    [][writes' # writes =>
          /\ lastStatus' = 400 <=> ~({"type", "payload"} \subseteq lastData')
          /\ lastStatus' = 400 =>
                 /\ returned' = 0
                 /\ UNCHANGED <<store, nextSeq, subscribers, mailbox,
                                delivered>>]_vars

\* C16 witness: a request with a type and no payload was answered 400 while
\* the table held rows and a subscription waited on an empty queue.
C16_Witness ==
    /\ lastStatus = 400 /\ lastData = {"type"}
    /\ store # {} /\ nextSeq = SetMax(store) + 1
    /\ \E c \in Clients : InList(subscribers, c) /\ mailbox[c] = <<>>

C18_NothingAtOrBelowCursorDelivered ==
    \A c \in Clients :
        Streaming(c) =>
            \A n \in Range(delivered[c]) : n > clientCursor[c]

\* C19: every notification in a queue or sent to a client is a row of the
\* table, and when it is put on a queue a range query from the seq below it
\* returns it; rows stay; a create whose commit fails answers 500, stores
\* nothing and puts nothing on any queue; and a row appears only in the step
\* of a create that answers 201.
C19_PublishedOnlyAfterPersisted ==
    [][/\ store \subseteq store'
       /\ \A c \in Clients :
              /\ \A n \in Range(mailbox'[c]) \cup Range(delivered'[c]) :
                     n \in store'
              /\ \A n \in Range(mailbox'[c]) \ Range(mailbox[c]) :
                     RangeQuery(store', n - 1, 1) = <<n>>
       /\ (writes' # writes /\ lastStatus' = 500)
              => /\ returned' = 0
                 /\ UNCHANGED <<store, subscribers, mailbox, delivered>>
       /\ store' # store => (writes' # writes /\ lastStatus' = 201)]_vars

\* C19 witness: a create failed at its commit after drawing a sequence value,
\* while a client waited in its live loop: nothing is stored, nothing queued.
C19_Witness ==
    /\ lastStatus = 500 /\ writes > 0
    /\ nextSeq > 1 /\ store = {}
    /\ \E c \in Clients :
           /\ pc[c] \in {"sse_live", "ws_live"}
           /\ InList(subscribers, c)
           /\ connectSeq[c] < nextSeq
           /\ mailbox[c] = <<>> /\ delivered[c] = <<>>

\* C20: what a polling client that follows next_after_seq has been returned
\* is strictly increasing (nothing twice, nothing out of order) and above its
\* start cursor; no row between the start cursor and its present cursor was
\* left out; after a poll that returned nothing, every row above the start
\* cursor has been received; and the cursor never decreases.
C20_PollerReceivesEachOnceInOrder ==
    [][/\ StrictlyIncreasing(pollerReceived')
       /\ \A n \in Range(pollerReceived') : n > pollerStart' /\ n \in store'
       /\ \A n \in store' :
              (pollerStart' < n /\ n <= pollerCursor')
                  => n \in Range(pollerReceived')
       /\ (pollResponse'.status = 200 /\ pollResponse'.items = <<>>
            /\ polledStore' = store')
              => \A n \in store' :
                     n > pollerStart' => n \in Range(pollerReceived')
       /\ pollerCursor' >= pollerCursor
       /\ pollerStart' = pollerStart]_vars

\* C20 witness: over several polls, the last one with limit 1, the client
\* has received three rows, the newest written during the run.
C20_Witness ==
    /\ Len(pollerReceived) >= 3
    /\ pollRequest[2] = 1
    /\ lastStatus = 201 /\ returned = pollerReceived[Len(pollerReceived)]
    /\ pollerCursor = returned

====
